---- MODULE Spec2Model ----
(***************************************************************************)
(* Model of post_processor/v3/post_processor_9.py: the redaction           *)
(* post-processor.  One call of PostProcessor.get_entities is modelled as  *)
(* a state machine whose steps are the iterations of the loops of the      *)
(* method.  Python strings are sequences of one-character strings, so that *)
(* the file name derivation, the page index parsing, str.strip and the     *)
(* " | " concatenation are computed as the code computes them.             *)
(*                                                                         *)
(* Inputs: page_id values are the strings they format to in the f-string   *)
(* of line 99; document keys contain no "+" (line 140 splits on it).  The  *)
(* table of a document is drawn when the loop of line 91 reaches its key,  *)
(* and the result of cv2.imread for a path when the path is first read.    *)
(***************************************************************************)
EXTENDS Integers, Sequences, FiniteSets, TLC

(***************************************************************************)
(* Bounds of the model.                                                    *)
(***************************************************************************)
MaxDocs == 2
MaxRows == 2
Width == 2
Height == 2

(***************************************************************************)
(* String helpers (Python str semantics on character sequences).           *)
(***************************************************************************)
IsPrefixAt(s, sub, i) ==
    /\ i + Len(sub) - 1 <= Len(s)
    /\ \A k \in 1..Len(sub) : s[i + k - 1] = sub[k]

\* Python: sub in s
Contains(s, sub) == \E i \in 1..(Len(s) + 1) : IsPrefixAt(s, sub, i)

\* Python: s.find(sub) + 1, or 0 when sub does not occur
Find(s, sub) ==
    IF Contains(s, sub)
    THEN CHOOSE i \in 1..(Len(s) + 1) :
            /\ IsPrefixAt(s, sub, i)
            /\ \A j \in 1..(i - 1) : ~IsPrefixAt(s, sub, j)
    ELSE 0

\* Python: s.split(sep)[0]
SplitHead(s, sep) ==
    IF Find(s, sep) = 0 THEN s ELSE SubSeq(s, 1, Find(s, sep) - 1)

\* Python: sep.join(s.split(sep)[1:]), the text after the first sep
SplitTail(s, sep) == SubSeq(s, Find(s, sep) + Len(sep), Len(s))

\* Python: os.path.splitext(name)[0] for a name without directory part
SplitExtRoot(name) ==
    LET dots == {i \in 1..Len(name) : name[i] = "."}
        last == CHOOSE i \in dots : \A j \in dots : j <= i
    IN  IF dots = {} THEN name
        ELSE IF \A j \in 1..(last - 1) : name[j] = "." THEN name
        ELSE SubSeq(name, 1, last - 1)

IsSpace(c) == c = " "

\* Python: str.strip()
RECURSIVE LStrip(_)
LStrip(s) ==
    IF s # <<>> /\ IsSpace(Head(s)) THEN LStrip(Tail(s)) ELSE s

RECURSIVE RStrip(_)
RStrip(s) ==
    IF s # <<>> /\ IsSpace(s[Len(s)]) THEN RStrip(SubSeq(s, 1, Len(s) - 1)) ELSE s

Strip(s) == LStrip(RStrip(s))

Range(s) == {s[k] : k \in 1..Len(s)}

(***************************************************************************)
(* Regular expressions.  A pattern is a record; the kinds are the shapes   *)
(* of the patterns of the module (lines 26 and 30), with the repetition    *)
(* counts scaled down:                                                     *)
(*   "groups": ^\d{n}( \d{n}){g-1}$   (line 30: ^\d{3} \d{3} \d{3}$)        *)
(*   "word":   \b\d{n}\b              (line 30: \b\d{9}\b)                  *)
(*   "search": \d{n}                  (line 26: \d{3}-\d{2}-\d{4} style)    *)
(*   "malformed": a string re.compile rejects                              *)
(* Matching is re.search on the text, as Series.str.contains does.         *)
(***************************************************************************)
Digits == {"0", "1", "2", "3", "4", "5", "6", "7", "8", "9"}
IsDigit(c) == c \in Digits
IsWordChar(c) == IsDigit(c) \/ c \in {"a", "b", "x", "_"}

PatGroups == [kind |-> "groups", n |-> 1, g |-> 2]
PatWord == [kind |-> "word", n |-> 2, g |-> 1]
PatSearch == [kind |-> "search", n |-> 1, g |-> 1]
PatMalformed == [kind |-> "malformed", n |-> 0, g |-> 0]

DigitsAt(text, i, n) ==
    /\ i >= 1
    /\ i + n - 1 <= Len(text)
    /\ \A k \in i..(i + n - 1) : IsDigit(text[k])

MatchGroups(text, n, g) ==
    /\ Len(text) = g * n + (g - 1)
    /\ \A k \in 1..Len(text) :
          IF k % (n + 1) = 0 THEN text[k] = " " ELSE IsDigit(text[k])

MatchWord(text, n) ==
    \E i \in 1..Len(text) :
        /\ DigitsAt(text, i, n)
        /\ (i = 1 \/ ~IsWordChar(text[i - 1]))
        /\ (i + n - 1 = Len(text) \/ ~IsWordChar(text[i + n]))

MatchSearch(text, n) == \E i \in 1..Len(text) : DigitsAt(text, i, n)

\* re.search(pattern, text) is not None
Matches(pattern, text) ==
    CASE pattern.kind = "groups" -> MatchGroups(text, pattern.n, pattern.g)
      [] pattern.kind = "word" -> MatchWord(text, pattern.n)
      [] pattern.kind = "search" -> MatchSearch(text, pattern.n)
      [] OTHER -> FALSE

\* a check that looks at the first pattern only
CompileFailsFirstOnly(patterns) == patterns # <<>> /\ patterns[1].kind = "malformed"

\* re.compile raises re.error for the first malformed pattern of the list
CompileFails(patterns) == \E k \in 1..Len(patterns) : patterns[k].kind = "malformed"

(***************************************************************************)
(* The module-level criteria (lines 29-30).  A criterion is None or a      *)
(* list; Truthy is Python's truth value of it.                             *)
(***************************************************************************)
None == [isNone |-> TRUE, list |-> <<>>]
List(l) == [isNone |-> FALSE, list |-> l]
Truthy(v) == ~v.isNone /\ v.list # <<>>

(***************************************************************************)
(* get_filtered_predictions (lines 54-67) on a table given as a sequence   *)
(* of rows.                                                                *)
(***************************************************************************)
\* line 55: doc_predictions['text'] = doc_predictions['text'].str.strip()
StripTexts(table) ==
    [k \in 1..Len(table) |-> [table[k] EXCEPT !.text = Strip(@)]]

\* a drop_duplicates that drops nothing
KeepDuplicates(s) == s

\* DataFrame.drop_duplicates(): keep the first of equal rows, in order
RECURSIVE DropDuplicates(_)
DropDuplicates(s) ==
    IF s = <<>> THEN <<>>
    ELSE LET init == DropDuplicates(SubSeq(s, 1, Len(s) - 1))
             last == s[Len(s)]
         IN  IF \E k \in 1..Len(init) : init[k] = last THEN init
             ELSE Append(init, last)

\* lines 58-59
LabelFiltered(table, labels) ==
    IF Truthy(labels)
    THEN SelectSeq(table, LAMBDA r : r.label \in Range(labels.list))
    ELSE <<>>

\* lines 62-64: pd.concat of one selection per pattern, in pattern order
RECURSIVE PatternConcat(_, _)
PatternConcat(table, patterns) ==
    IF patterns = <<>> THEN <<>>
    ELSE SelectSeq(table, LAMBDA r : Matches(Head(patterns), r.text))
            \o PatternConcat(table, Tail(patterns))

\* lines 62-65
PatternFiltered(table, patterns) ==
    IF Truthy(patterns)
    THEN DropDuplicates(PatternConcat(table, patterns.list))
    ELSE <<>>

\* line 67 with the two frames concatenated the other way round
ConcatPatternFirst(labelRows, patternRows) == DropDuplicates(patternRows \o labelRows)

\* line 67, on the stripped table
ConcatFiltered(labelRows, patternRows) == DropDuplicates(labelRows \o patternRows)

get_filtered_predictions(table, labels, patterns) ==
    ConcatFiltered(LabelFiltered(StripTexts(table), labels),
                   PatternFiltered(StripTexts(table), patterns))

(***************************************************************************)
(* File names and page indexes (lines 99-103, 114-119, 140).               *)
(***************************************************************************)
Ext == <<".", "p", "n", "g">>
Plus == <<"+">>
PdfMarker == <<".", "p", "d", "f">>

\* lines 99-103 and 114-119
FileName(docKey, page_id) ==
    LET filename == docKey \o Plus \o page_id \o Ext
    IN  IF ~Contains(filename, PdfMarker)
        THEN SplitExtRoot(docKey) \o Plus \o page_id \o Ext
        ELSE filename

\* line 140: filename.split('+')[1].split(self.img_extension)[0]
PageIndex(filename) == SplitHead(SplitHead(SplitTail(filename, Plus), Plus), Ext)

(***************************************************************************)
(* Bitmaps: a function from the pixels <<x, y>> to a colour, 0 is black.   *)
(***************************************************************************)
Pixels == (0..(Width - 1)) \X (0..(Height - 1))
Min(a, b) == IF a <= b THEN a ELSE b
Max(a, b) == IF a >= b THEN a ELSE b

\* a fill that leaves out the far edges, as the slice image[ymin:ymax, xmin:xmax]
redact_region_half_open(image, xmin, ymin, xmax, ymax) ==
    [p \in DOMAIN image |->
        IF /\ xmin <= p[1] /\ p[1] < xmax /\ ymin <= p[2] /\ p[2] < ymax
        THEN 0 ELSE image[p]]

\* lines 50-52: cv2.rectangle(image, (xmin, ymin), (xmax, ymax), (0,0,0), -1)
\* fills the rectangle spanned by the two corners, both included, clipped
redact_region(image, xmin, ymin, xmax, ymax) ==
    [p \in DOMAIN image |->
        IF /\ Min(xmin, xmax) <= p[1] /\ p[1] <= Max(xmin, xmax)
           /\ Min(ymin, ymax) <= p[2] /\ p[2] <= Max(ymin, ymax)
        THEN 0 ELSE image[p]]

\* line 139: cv2.imencode(".png", image): lossless, here the header
\* <<width, height>> followed by the pixels row by row
ImEncode(image) ==
    <<Width, Height>> \o
    [k \in 1..(Width * Height) |-> image[<<(k - 1) % Width, (k - 1) \div Width>>]]

\* line 148: base64.b64encode(img_encoded).decode("ascii")
B64Encode(bytes) == [ascii |-> bytes]

\* the inverse of the two encodings, for reading a bundle's image
DecodeImage(b64) ==
    LET bytes == b64.ascii
        w == bytes[1]
    IN  [p \in (0..(w - 1)) \X (0..(bytes[2] - 1)) |-> bytes[2 + p[2] * w + p[1] + 1]]

(***************************************************************************)
(* Python dicts.  redacted_images_per_page keeps insertion order (it is    *)
(* iterated at line 138): a sequence of [key, value] entries.              *)
(* redacted_text_per_page is only looked up: a function on its keys.       *)
(***************************************************************************)
DictHas(d, key) == \E k \in 1..Len(d) : d[k].key = key
DictGet(d, key) == d[CHOOSE k \in 1..Len(d) : d[k].key = key].value
DictSet(d, key, value) ==
    IF DictHas(d, key)
    THEN [k \in 1..Len(d) |-> IF d[k].key = key THEN [key |-> key, value |-> value] ELSE d[k]]
    ELSE Append(d, [key |-> key, value |-> value])

EmptyText == <<>>
Separator == <<" ", "|", " ">>

\* lines 131-134
AddText(texts, page_id, text) ==
    [p \in DOMAIN texts \cup {page_id} |->
        IF p = page_id
        THEN IF page_id \in DOMAIN texts THEN texts[page_id] \o Separator \o text ELSE text
        ELSE texts[p]]

\* line 143: redacted_text_per_page.get(page_index, "")
GetText(texts, page_index) ==
    IF page_index \in DOMAIN texts THEN texts[page_index] ELSE EmptyText

\* a loop that never consults processed_page_ids
NeedsReadAlways(processed, page_id) == TRUE

\* line 98: the page is read unless it is marked as processed
NeedsRead(processed, page_id) == page_id \notin processed

\* lines 107-109: the page is marked only when cv2.imread returned an image
MarkProcessed(processed, page_id, ok) ==
    IF ok THEN processed \cup {page_id} ELSE processed

\* a redaction that fills the rectangle in every cached bitmap
RedactEveryImage(images, key, r) ==
    [k \in 1..Len(images) |->
        [key |-> images[k].key,
         value |-> redact_region(images[k].value, r.xmin, r.ymin, r.xmax, r.ymax)]]

\* lines 121-125: the rectangle of the row is filled in the cached bitmap
\* stored under the row's file name
RedactImages(images, key, r) ==
    DictSet(images, key,
            redact_region(DictGet(images, key), r.xmin, r.ymin, r.xmax, r.ymax))

\* lines 139-150
MakeDataBundle(entry, texts) ==
    [pageIndex |-> PageIndex(entry.key),
     redactedData |-> GetText(texts, PageIndex(entry.key)),
     image |-> B64Encode(ImEncode(entry.value))]

(***************************************************************************)
(* The inputs of one call: what the merge engine hands back (the document  *)
(* keys and one table per key) and what cv2.imread finds on disk.          *)
(***************************************************************************)
DocNames ==
    << <<"a", ".", "p", "d", "f">>, <<"b", ".", "j", "p", "g">>,
       <<"c", ".", "p", "d", "f">>, <<"d", ".", "t", "i", "f">> >>
DocPool == {DocNames[k] : k \in 1..Min(MaxDocs, Len(DocNames))}

\* the key lists of a dict: no key twice
KeyLists ==
    UNION {{ks \in [1..n -> DocPool] : \A a, b \in 1..n : a # b => ks[a] # ks[b]} :
           n \in 0..MaxDocs}

Labels == {"name", "O"}
Texts == {<<" ", "1", " ", "1">>, <<"1", "1">>, <<"x">>}
PageIds == {<<"0">>, <<"1">>}

\* the rectangle of the k-th row of a table: inside the page, overlapping
\* the first and leaving the page, starting left of the page
Boxes == << <<0, 0, 1, 0>>, <<1, 0, 2, 1>>, <<-1, 1, 0, 1>> >>
BoxAt(k) == Boxes[((k - 1) % Len(Boxes)) + 1]

\* line 92: every row gets a fresh uuid4 string, here <<document key, k>>
Row(docKey, k, label, text, page_id) ==
    [label |-> label, text |-> text,
     xmin |-> BoxAt(k)[1], ymin |-> BoxAt(k)[2],
     xmax |-> BoxAt(k)[3], ymax |-> BoxAt(k)[4],
     page_id |-> page_id, doc_id |-> docKey, id |-> <<docKey, k>>]

RowChoices == Labels \X Texts \X PageIds

Tables(docKey) ==
    UNION {{[k \in 1..n |-> Row(docKey, k, c[k][1], c[k][2], c[k][3])] :
              c \in [1..n -> RowChoices]} : n \in 0..MaxRows}

LabelChoices == {None, List(<<"name">>)}
PatternChoices ==
    {List(<<>>), List(<<PatGroups, PatWord, PatSearch>>),
     List(<<PatGroups, PatMalformed>>)}

\* cv2.imread: None for a missing or unreadable file, else the bitmap
Scan == [p \in Pixels |-> IF p = <<0, 0>> THEN 0 ELSE 255]
NoImage == [ok |-> FALSE, img |-> Scan]
ReadResults == {NoImage, [ok |-> TRUE, img |-> Scan]}

(***************************************************************************)
(* State of one get_entities call.                                         *)
(***************************************************************************)
VARIABLES
    pc,                       \* position in get_entities
    has_labelling_model,      \* self.has_labelling_model
    labels_to_redact,         \* line 29
    text_patterns_to_redact,  \* line 30
    docKeys,                  \* keys of docs not yet iterated (line 91)
    doc,                      \* the loop variable of line 91
    df,                       \* docs[doc]
    row,                      \* index of the next row of the running loop
    processed_page_ids,       \* line 95
    redacted_images_per_page, \* lines 88, 94
    redacted_text_per_page,   \* line 89
    filtered_predictions,     \* line 111
    redacted_data_bundles,    \* line 137
    raised,                   \* the exception that ended the call, or "none"
    fs,                       \* what cv2.imread returns for each path read, this document
    reads,                    \* history: cv2.imread calls per path, this document
    loaded,                   \* history: <<document, page_id>> whose image loaded
    textLog,                  \* history: [doc_id, page_id, text] of every redacted row
    bundleKeys                \* history: the cache key of each bundle

vars ==
    <<pc, has_labelling_model, labels_to_redact, text_patterns_to_redact, docKeys,
      doc, df, row, processed_page_ids, redacted_images_per_page,
      redacted_text_per_page, filtered_predictions, redacted_data_bundles, raised,
      fs, reads, loaded, textLog, bundleKeys>>

NoDoc == <<>>
EmptyMap == [x \in {} |-> 0]

Init ==
    /\ pc = "start"
    /\ has_labelling_model \in BOOLEAN
    /\ labels_to_redact \in LabelChoices
    /\ text_patterns_to_redact \in PatternChoices
    /\ docKeys = <<>>
    /\ doc = NoDoc
    /\ df = <<>>
    /\ row = 1
    /\ processed_page_ids = {}
    /\ redacted_images_per_page = <<>>
    /\ redacted_text_per_page = EmptyMap
    /\ filtered_predictions = <<>>
    /\ redacted_data_bundles = <<>>
    /\ raised = "none"
    /\ fs = EmptyMap
    /\ reads = EmptyMap
    /\ loaded = {}
    /\ textLog = <<>>
    /\ bundleKeys = <<>>

\* where the loop of line 91 continues: the next document, or line 137
AfterDoc(keys) == IF keys # <<>> THEN "docs" ELSE "bundle"

\* lines 71-72
NoLabellingModel ==
    /\ pc = "start"
    /\ ~has_labelling_model
    /\ pc' = "done"
    /\ UNCHANGED <<has_labelling_model, labels_to_redact, text_patterns_to_redact,
                   docKeys, doc, df, row, processed_page_ids,
                   redacted_images_per_page, redacted_text_per_page,
                   filtered_predictions, redacted_data_bundles, raised, fs, reads,
                   loaded, textLog, bundleKeys>>

\* lines 74-89: the merge engine hands back a dict of tables
PostProcessPredictions ==
    /\ pc = "start"
    /\ has_labelling_model
    /\ \E keys \in KeyLists :
          /\ docKeys' = keys
          /\ pc' = AfterDoc(keys)
    /\ redacted_images_per_page' = <<>>
    /\ redacted_text_per_page' = EmptyMap
    /\ UNCHANGED <<has_labelling_model, labels_to_redact, text_patterns_to_redact,
                   doc, df, row, processed_page_ids, filtered_predictions,
                   redacted_data_bundles, raised, fs, reads, loaded, textLog, bundleKeys>>

\* lines 91-95: the next document; its rows get their ids, the image cache
\* is rebound to an empty dict.  filtered_predictions is not read before
\* line 111 rebinds it, so the value left by the previous document is
\* dropped here; the per-document histories start again.
BeginDoc ==
    /\ pc = "docs"
    /\ docKeys # <<>>
    /\ doc' = Head(docKeys)
    /\ docKeys' = Tail(docKeys)
    /\ \E table \in Tables(Head(docKeys)) : df' = table
    /\ redacted_images_per_page' = <<>>
    /\ processed_page_ids' = {}
    /\ row' = 1
    /\ filtered_predictions' = <<>>
    /\ fs' = EmptyMap
    /\ reads' = EmptyMap
    /\ pc' = "load"
    /\ UNCHANGED <<has_labelling_model, labels_to_redact, text_patterns_to_redact,
                   redacted_text_per_page, redacted_data_bundles, raised, loaded,
                   textLog, bundleKeys>>

\* lines 96-109, one row of the table
LoadPage ==
    /\ pc = "load"
    /\ row <= Len(df)
    /\ LET page_id == df[row].page_id
           filename == FileName(doc, page_id)
       IN  IF NeedsRead(processed_page_ids, page_id)
           THEN \E image \in ReadResults :
                  /\ filename \in DOMAIN fs => image = fs[filename]
                  /\ fs' = (filename :> image) @@ fs
                  /\ reads' = [f \in DOMAIN reads \cup {filename} |->
                                  IF f = filename
                                  THEN (IF f \in DOMAIN reads THEN reads[f] ELSE 0) + 1
                                  ELSE reads[f]]
                  /\ redacted_images_per_page' =
                        IF image.ok
                        THEN DictSet(redacted_images_per_page, filename, image.img)
                        ELSE redacted_images_per_page
                  /\ processed_page_ids' =
                        MarkProcessed(processed_page_ids, page_id, image.ok)
                  /\ loaded' = IF image.ok THEN loaded \cup {<<doc, page_id>>} ELSE loaded
           ELSE UNCHANGED <<fs, reads, redacted_images_per_page, processed_page_ids,
                            loaded>>
    /\ row' = row + 1
    /\ UNCHANGED <<pc, has_labelling_model, labels_to_redact, text_patterns_to_redact,
                   docKeys, doc, df, redacted_text_per_page, filtered_predictions,
                   redacted_data_bundles, raised, textLog, bundleKeys>>

\* line 111: get_filtered_predictions(docs[doc]); the text column of the
\* table is stripped in place, and a malformed pattern raises re.error
Filter ==
    /\ pc = "load"
    /\ row > Len(df)
    /\ df' = StripTexts(df)
    /\ IF Truthy(text_patterns_to_redact) /\ CompileFails(text_patterns_to_redact.list)
       THEN /\ raised' = "re.error"
            /\ pc' = "raised"
            /\ UNCHANGED <<filtered_predictions, row>>
       ELSE /\ filtered_predictions' =
                  get_filtered_predictions(df, labels_to_redact, text_patterns_to_redact)
            /\ row' = 1
            /\ pc' = IF filtered_predictions' # <<>> THEN "redact" ELSE AfterDoc(docKeys)
            /\ UNCHANGED raised
    /\ UNCHANGED <<has_labelling_model, labels_to_redact, text_patterns_to_redact,
                   docKeys, doc, processed_page_ids, redacted_images_per_page,
                   redacted_text_per_page, redacted_data_bundles, fs, reads, loaded,
                   textLog, bundleKeys>>

\* lines 113-134, one filtered row
RedactRow ==
    /\ pc = "redact"
    /\ row <= Len(filtered_predictions)
    /\ LET r == filtered_predictions[row]
           processed_filename == FileName(doc, r.page_id)
       IN  IF DictHas(redacted_images_per_page, processed_filename)
           THEN /\ redacted_images_per_page' =
                      RedactImages(redacted_images_per_page, processed_filename, r)
                /\ redacted_text_per_page' =
                      AddText(redacted_text_per_page, r.page_id, r.text)
                /\ textLog' = Append(textLog, [doc_id |-> r.doc_id, page_id |-> r.page_id,
                                                text |-> r.text])
                /\ row' = row + 1
                /\ pc' = IF row < Len(filtered_predictions) THEN "redact"
                         ELSE AfterDoc(docKeys)
                /\ UNCHANGED raised
           ELSE /\ raised' = "KeyError"
                /\ pc' = "raised"
                /\ UNCHANGED <<redacted_images_per_page, redacted_text_per_page,
                               textLog, row>>
    /\ UNCHANGED <<has_labelling_model, labels_to_redact, text_patterns_to_redact,
                   docKeys, doc, df, processed_page_ids, filtered_predictions,
                   redacted_data_bundles, fs, reads, loaded, bundleKeys>>

\* lines 138-152, one entry of the image cache
AppendBundle ==
    /\ pc = "bundle"
    /\ Len(redacted_data_bundles) < Len(redacted_images_per_page)
    /\ LET entry == redacted_images_per_page[Len(redacted_data_bundles) + 1]
       IN  /\ redacted_data_bundles' =
                 Append(redacted_data_bundles, MakeDataBundle(entry, redacted_text_per_page))
           /\ bundleKeys' = Append(bundleKeys, entry.key)
    /\ UNCHANGED <<pc, has_labelling_model, labels_to_redact, text_patterns_to_redact,
                   docKeys, doc, df, row, processed_page_ids,
                   redacted_images_per_page, redacted_text_per_page,
                   filtered_predictions, raised, fs, reads, loaded, textLog>>

\* line 154
Return ==
    /\ pc = "bundle"
    /\ Len(redacted_data_bundles) = Len(redacted_images_per_page)
    /\ pc' = "done"
    /\ UNCHANGED <<has_labelling_model, labels_to_redact, text_patterns_to_redact,
                   docKeys, doc, df, row, processed_page_ids,
                   redacted_images_per_page, redacted_text_per_page,
                   filtered_predictions, redacted_data_bundles, raised, fs, reads,
                   loaded, textLog, bundleKeys>>

Next ==
    \/ NoLabellingModel
    \/ PostProcessPredictions
    \/ BeginDoc
    \/ LoadPage
    \/ Filter
    \/ RedactRow
    \/ AppendBundle
    \/ Return

Spec == Init /\ [][Next]_vars

(***************************************************************************)
(* Vocabulary of the properties.                                           *)
(***************************************************************************)
BundleIx == 1..Len(redacted_data_bundles)
FilteredIx == 1..Len(filtered_predictions)

\* get_filtered_predictions has returned for the table in df
FilterDone ==
    /\ doc # NoDoc
    /\ \/ pc \in {"redact", "docs", "bundle", "done"}
       \/ pc = "raised" /\ raised = "KeyError"

\* the position of a row in the table it comes from
TableIndex(r) == r.id[2]

LabelEnabled == ~labels_to_redact.isNone /\ Len(labels_to_redact.list) > 0
PatternEnabled == ~text_patterns_to_redact.isNone /\ Len(text_patterns_to_redact.list) > 0

LabelHit(r) ==
    LabelEnabled /\ \E k \in 1..Len(labels_to_redact.list) : labels_to_redact.list[k] = r.label

PatternHits(r) ==
    IF PatternEnabled
    THEN {k \in 1..Len(text_patterns_to_redact.list) :
            Matches(text_patterns_to_redact.list[k], Strip(r.text))}
    ELSE {}

HasMalformedPattern ==
    PatternEnabled /\ PatMalformed \in Range(text_patterns_to_redact.list)

\* texts joined with " | "
RECURSIVE JoinTexts(_)
JoinTexts(ts) ==
    IF ts = <<>> THEN <<>>
    ELSE IF Len(ts) = 1 THEN ts[1]
    ELSE ts[1] \o <<" ", "|", " ">> \o JoinTexts(Tail(ts))

\* the texts, in redaction order, of the redacted rows of page page_id of
\* document docKey
TextsOf(docKey, page_id) ==
    LET hits == SelectSeq(textLog, LAMBDA e : e.doc_id = docKey /\ e.page_id = page_id)
    IN  [k \in 1..Len(hits) |-> hits[k].text]

\* the bundle k was built from the cache entry of page page_id of docKey
BundleOf(k, docKey, page_id) == bundleKeys[k] = FileName(docKey, page_id)

InRectangle(p, r) ==
    /\ r.xmin <= p[1] /\ p[1] <= r.xmax
    /\ r.ymin <= p[2] /\ p[2] <= r.ymax

(***************************************************************************)
(* C1.  When the call has returned, there is exactly one bundle for every  *)
(* page that some row references and whose image loaded, and no other      *)
(* bundle.                                                                 *)
(***************************************************************************)
C1_OneBundlePerLoadedPage ==
    pc = "done" =>
        /\ Len(redacted_data_bundles) = Cardinality(loaded)
        /\ \A dp \in loaded :
              \E k \in BundleIx :
                  BundleOf(k, dp[1], dp[2]) /\ redacted_data_bundles[k].pageIndex = dp[2]
        /\ \A k \in BundleIx : \E dp \in loaded : BundleOf(k, dp[1], dp[2])

(***************************************************************************)
(* C2.  The redactedData of every bundle is the " | "-joined texts of the  *)
(* filtered rows of the bundle's own page, in filter-result order, and     *)
(* pageIndex names that page; no text of another page appears in it.       *)
(***************************************************************************)
C2_RedactedDataOfOwnPage ==
    \A k \in BundleIx :
        \E docKey \in DocPool, page_id \in PageIds :
            /\ BundleOf(k, docKey, page_id)
            /\ redacted_data_bundles[k].pageIndex = page_id
            /\ redacted_data_bundles[k].redactedData = JoinTexts(TextsOf(docKey, page_id))

(***************************************************************************)
(* C3 as stated.  The filtered rows are in the order of the table.         *)
(***************************************************************************)
C3_TableOrder ==
    FilterDone =>
        \A a, b \in FilteredIx :
            a < b => TableIndex(filtered_predictions[a]) < TableIndex(filtered_predictions[b])

\* the group of a filtered row: 0 for a label match, else the position of
\* the first pattern the text matches
Group(r) ==
    IF LabelHit(r) THEN 0
    ELSE CHOOSE k \in PatternHits(r) : \A j \in PatternHits(r) : k <= j

(***************************************************************************)
(* C3 as amended.  The filtered rows are in concatenation order: the rows  *)
(* with an enabled label first, then for each pattern in list order the    *)
(* rows it matches that are not listed yet; within one group the rows are  *)
(* in the order of the table.  The rows are redacted in that order, and    *)
(* the redactedData of a bundle lists the texts of the redacted rows with  *)
(* the bundle's page_id in the order of their redaction.                   *)
(***************************************************************************)
C3_ConcatOrder ==
    /\ FilterDone =>
          \A a, b \in FilteredIx :
              a < b =>
                  LET ra == filtered_predictions[a]
                      rb == filtered_predictions[b]
                  IN  \/ Group(ra) < Group(rb)
                      \/ Group(ra) = Group(rb) /\ TableIndex(ra) < TableIndex(rb)
    /\ (doc # NoDoc /\ pc \in {"docs", "bundle", "done"}) =>
          /\ Len(textLog) >= Len(filtered_predictions)
          /\ \A a \in FilteredIx :
                LET e == textLog[Len(textLog) - Len(filtered_predictions) + a]
                IN  /\ e.doc_id = filtered_predictions[a].doc_id
                    /\ e.page_id = filtered_predictions[a].page_id
                    /\ e.text = filtered_predictions[a].text
    /\ \A k \in BundleIx :
          LET hits == SelectSeq(textLog,
                                LAMBDA e : e.page_id = redacted_data_bundles[k].pageIndex)
          IN  redacted_data_bundles[k].redactedData
                 = JoinTexts([j \in 1..Len(hits) |-> hits[j].text])

\* a row matched by a later group stands before a row of an earlier group
\* in the table, and after it in the result
C3_Witness ==
    /\ FilterDone
    /\ \E a, b \in FilteredIx :
          /\ a < b
          /\ TableIndex(filtered_predictions[a]) > TableIndex(filtered_predictions[b])

(***************************************************************************)
(* C4.  A page image that cannot be read never makes get_entities fail.    *)
(***************************************************************************)
C4_MissingImageNeverFails == raised # "KeyError"

(***************************************************************************)
(* C5.  The image of a bundle whose page has no filtered row is the        *)
(* bitmap cv2.imread returned for that page, pixel by pixel.               *)
(***************************************************************************)
C5_UnmatchedPageUnchanged ==
    \A k \in BundleIx, page_id \in PageIds :
        (/\ BundleOf(k, doc, page_id)
         /\ \A a \in FilteredIx : filtered_predictions[a].page_id # page_id)
        => DecodeImage(redacted_data_bundles[k].image) = fs[bundleKeys[k]].img

\* a bundle of an unmatched page next to a bundle whose image was redacted
C5_Witness ==
    /\ pc = "done"
    /\ \E k, j \in BundleIx, page_id \in PageIds :
          /\ BundleOf(k, doc, page_id)
          /\ \A a \in FilteredIx : filtered_predictions[a].page_id # page_id
          /\ DecodeImage(redacted_data_bundles[k].image) = Scan
          /\ DecodeImage(redacted_data_bundles[j].image) # Scan

(***************************************************************************)
(* C6.  In the image of a bundle, every pixel of the page that lies in     *)
(* the rectangle of a filtered row of that page is black.                  *)
(***************************************************************************)
C6_MatchedRectanglesBlack ==
    \A k \in BundleIx, a \in FilteredIx :
        BundleOf(k, doc, filtered_predictions[a].page_id) =>
            \A p \in Pixels :
                InRectangle(p, filtered_predictions[a])
                => DecodeImage(redacted_data_bundles[k].image)[p] = 0

\* two filtered rows of one page with overlapping rectangles, both filled
\* in the emitted image, which still has a pixel that is not black
C6_Witness ==
    /\ pc = "done"
    /\ \E k \in BundleIx, a, b \in FilteredIx, p \in Pixels :
          /\ a # b
          /\ BundleOf(k, doc, filtered_predictions[a].page_id)
          /\ filtered_predictions[a].page_id = filtered_predictions[b].page_id
          /\ InRectangle(p, filtered_predictions[a])
          /\ InRectangle(p, filtered_predictions[b])
          /\ Scan[p] # 0
          /\ \E q \in Pixels : DecodeImage(redacted_data_bundles[k].image)[q] # 0

(***************************************************************************)
(* C7.  get_filtered_predictions returns the rows with an enabled label    *)
(* together with the rows whose stripped text matches an enabled pattern,  *)
(* each once; a disabled half contributes nothing, and with both halves    *)
(* disabled nothing is redacted and every redactedData is empty.           *)
(***************************************************************************)
C7_MatchingRowsOnce ==
    /\ FilterDone =>
          /\ {filtered_predictions[a].id : a \in FilteredIx} =
                {df[k].id : k \in {j \in 1..Len(df) : LabelHit(df[j]) \/ PatternHits(df[j]) # {}}}
          /\ \A a \in FilteredIx : filtered_predictions[a] \in Range(df)
          /\ \A a, b \in FilteredIx :
                a # b => filtered_predictions[a].id # filtered_predictions[b].id
    /\ (~LabelEnabled /\ ~PatternEnabled) =>
          /\ filtered_predictions = <<>>
          /\ textLog = <<>>
          /\ \A k \in BundleIx :
                /\ redacted_data_bundles[k].redactedData = <<>>
                /\ DecodeImage(redacted_data_bundles[k].image) = fs[bundleKeys[k]].img

\* a row whose text needed stripping, matched by its label and by two
\* patterns, is returned once, next to another returned row
C7_Witness ==
    /\ FilterDone
    /\ Len(filtered_predictions) = 2
    /\ \E a \in FilteredIx :
          /\ LabelHit(filtered_predictions[a])
          /\ Cardinality(PatternHits(filtered_predictions[a])) = 2
          /\ filtered_predictions[a].text = <<"1", " ", "1">>

(***************************************************************************)
(* C8 as stated.  With a malformed pattern in the list no page image is    *)
(* ever read: the fault comes first.                                       *)
(***************************************************************************)
C8_FaultBeforeFirstRead ==
    HasMalformedPattern => (DOMAIN reads = {} /\ loaded = {})

(***************************************************************************)
(* C8 as amended.  With a malformed pattern in the list the fault is       *)
(* raised when the rows of the first document are filtered: the call never *)
(* gets past the loading of the first document, no row is redacted, every  *)
(* cached bitmap is as read, and only a call without documents returns.    *)
(***************************************************************************)
C8_FaultAtFirstFilter ==
    HasMalformedPattern =>
        /\ raised \in {"none", "re.error"}
        /\ doc # NoDoc => pc \in {"load", "raised"}
        /\ pc = "raised" => row > Len(df)
        /\ filtered_predictions = <<>>
        /\ textLog = <<>>
        /\ redacted_text_per_page = EmptyMap
        /\ redacted_data_bundles = <<>>
        /\ \A k \in 1..Len(redacted_images_per_page) :
              redacted_images_per_page[k].value = fs[redacted_images_per_page[k].key].img

\* the fault was raised after an image of the first document was read
C8_Witness ==
    /\ HasMalformedPattern
    /\ pc = "raised"
    /\ raised = "re.error"
    /\ loaded # {}
    /\ \E k \in 1..Len(df) : PatternHits(df[k]) # {}

(***************************************************************************)
(* C9 as stated.  No image file is read more than once while the cache of  *)
(* a document is populated.                                                *)
(***************************************************************************)
C9_ReadAtMostOnce == \A f \in DOMAIN reads : reads[f] <= 1

\* the rows of the table the loading loop has gone through
RowsLoaded == IF pc = "load" THEN row - 1 ELSE Len(df)
RowsOfPage(page_id) == {k \in 1..RowsLoaded : df[k].page_id = page_id}
ReadsOf(f) == IF f \in DOMAIN reads THEN reads[f] ELSE 0

(***************************************************************************)
(* C9 as amended.  A page whose image loaded is read once, however many    *)
(* rows reference it; a page whose read failed is read again for every     *)
(* row that references it.                                                 *)
(***************************************************************************)
C9_ReadOncePerLoadedPage ==
    doc # NoDoc =>
        \A page_id \in PageIds :
            LET f == FileName(doc, page_id)
                n == Cardinality(RowsOfPage(page_id))
            IN  ReadsOf(f) = IF n = 0 THEN 0 ELSE IF fs[f].ok THEN 1 ELSE n

\* two rows of one page whose image loaded: one read
C9_Witness ==
    /\ doc # NoDoc
    /\ \E page_id \in PageIds :
          /\ Cardinality(RowsOfPage(page_id)) >= 2
          /\ fs[FileName(doc, page_id)].ok
          /\ reads[FileName(doc, page_id)] = 1

(***************************************************************************)
(* C10.  Nothing carries over from one document to the next: a bundle's    *)
(* redactedData holds only texts of rows of the bundle's own document, and *)
(* every page that loaded, of whichever document, has its bundle.          *)
(***************************************************************************)
C10_NoCarryOverBetweenDocuments ==
    pc = "done" =>
        /\ \A k \in BundleIx :
              \E docKey \in DocPool :
                  /\ BundleOf(k, docKey, redacted_data_bundles[k].pageIndex)
                  /\ redacted_data_bundles[k].redactedData
                        = JoinTexts(TextsOf(docKey, redacted_data_bundles[k].pageIndex))
        /\ \A dp \in loaded : \E k \in BundleIx : BundleOf(k, dp[1], dp[2])

====
